---- MODULE Spec2Model ----
(***************************************************************************)
(* Model of src/src/context/AuthContext.tsx: the AuthProvider component    *)
(* (session probe with module-level guard flags, debounced auth-state      *)
(* change handler, login, logout, manual override).                        *)
(*                                                                         *)
(* One event loop: every action below is one synchronous run-to-suspension *)
(* segment of the code; an `await` ends a segment and its continuation is   *)
(* a later action.  React state setters are modelled as assignments to the *)
(* state cell of the provider instance whose closure calls them.           *)
(***************************************************************************)
EXTENDS Integers, Sequences, FiniteSets, TLC

\* ---------------------------------------------------------------- bounds
\* Each specification below explores the actions from the same initial
\* program state, with its own budget of environment steps: effect runs
\* (mounts), operations (login() calls, logout() calls and change
\* notifications together) and clock ticks.
AllMounts      == 2
AllOps         == 1
AllTicks       == 2
GuardMounts    == 4
SessionMounts  == 2
SessionOps     == 2
SessionTicks   == 2
ThrottleMounts == 2
ThrottleEvents == 4
ThrottleTicks  == 4
StartTicks     == 4  \* Date.now() at load, in ticks (any positive instant)

\* ------------------------------------------------------- program constants
ThrottleMs == 500                      \* setTimeout delay, line 141
TickMs     == ThrottleMs \div 2        \* clock granularity of the model
PrivilegedEmail == "droweder@gmail.com"

\* Mounted provider instances (the component may be mounted at several
\* points; each has its own React state, all share the module-level flags).
Inst == {"A", "B"}
\* the instances are interchangeable: "A" names the one whose effect runs first
FirstInst == "A"

\* null / undefined of an object-typed value, and of a string-typed value
Null      == [null |-> TRUE]
NullStr   == "null"
Undefined == "undefined"

\* ---------------------------------------------- values the backend returns
Sessions ==
  { [user |-> [id |-> "u1", email |-> PrivilegedEmail, created_at |-> "c1"],
     access_token |-> "t1"],
    [user |-> [id |-> "u2", email |-> "a@b.com", created_at |-> "c2"],
     access_token |-> "t2"] }

\* a session object without a user (fails `session && session.user`)
UserlessSession == [user |-> Null, access_token |-> "t4"]

\* what getSession / signInWithPassword may resolve `session` to
SessionValues == Sessions \cup {UserlessSession, Null}

\* what a change notification may carry (Session | null)
EventSessions == Sessions \cup {Null}

BackendErrors == { [message |-> "e1"] }

\* what a rejected promise may carry: an Error instance or something else
Thrown == { [isError |-> TRUE, message |-> "x1"],
            [isError |-> FALSE, message |-> Undefined] }

\* results of withAuthRetry(() => supabase.auth.X()): a { data, error }
\* value, or a rejection
Returned(s, e) == [kind |-> "return", session |-> s, error |-> e, thrown |-> Null]
Rejected(t)    == [kind |-> "throw", session |-> Null, error |-> Null, thrown |-> t]

SessionOutcomes ==
  { Returned(s, e) : s \in SessionValues, e \in BackendErrors \cup {Null} }
  \cup { Rejected(t) : t \in Thrown }

SignOutOutcomes ==
  { Returned(Null, e) : e \in BackendErrors \cup {Null} }
  \cup { Rejected(t) : t \in Thrown }

VARIABLES
  \* module-level flags (lines 7-10)
  hasCheckedSession, isCheckingSession, sessionCheckPromise,
  hasInitialSessionChecked,
  \* React state of each provider instance (lines 36-40)
  currentUser, authToken, isLoading, authError, lastTokenRefresh,
  \* effect closure of each instance (lines 113-114)
  subscribed, authStateChangeTimeout,
  live,             \* per instance: the timers set and neither run nor cleared
  \* suspended and finished invocations
  calls,            \* checkSession invocations, in call order
  loginPending,     \* login() invocations awaiting signInWithPassword
  logoutPending,    \* logout() invocations awaiting signOut
  \* environment
  now,              \* the clock, in ms
  fetchCalls,       \* withAuthRetry(getSession) invocations so far
  budget,           \* environment steps still allowed in this behaviour
  loginResult,      \* per instance: what the last settled login() returned
  logoutResult,     \* per instance: how the last settled logout() ended
  \* observation (history) variables
  burst             \* per instance: the current chain of change events

guardVars == <<hasCheckedSession, isCheckingSession, sessionCheckPromise,
               hasInitialSessionChecked>>
stateVars == <<currentUser, authToken, isLoading, authError, lastTokenRefresh>>
vars == <<guardVars, stateVars, subscribed, authStateChangeTimeout, live,
          calls, loginPending, logoutPending, now, fetchCalls, budget,
          loginResult, logoutResult, burst>>

\* len: events in the chain; lastAt, lastSession: when the last one arrived
\* and what it carried; applied: timer callbacks run for the chain;
\* appliedAt, appliedSession: when the last of them ran and what it applied;
\* torn: the cleanup cancelled the chain's pending timer; beforeLogout: a
\* logout() cleared the state while the chain's last event was pending
NoBurst == [len |-> 0, applied |-> 0, lastAt |-> 0, lastSession |-> Null,
            appliedAt |-> 0, appliedSession |-> Null, torn |-> FALSE,
            beforeLogout |-> FALSE]

\* `several`: whether instances other than the first may be mounted
Budget(several, m, o, t) ==
  [several |-> several, mounts |-> m, ops |-> o, ticks |-> t]

\* the state at module load, before any provider is mounted
Loaded ==
  /\ hasCheckedSession = FALSE
  /\ isCheckingSession = FALSE
  /\ sessionCheckPromise = 0
  /\ hasInitialSessionChecked = FALSE
  /\ currentUser = [i \in Inst |-> Null]
  /\ authToken = [i \in Inst |-> NullStr]
  /\ isLoading = [i \in Inst |-> TRUE]
  /\ authError = [i \in Inst |-> NullStr]
  /\ lastTokenRefresh = [i \in Inst |-> 0]
  /\ subscribed = [i \in Inst |-> FALSE]
  /\ authStateChangeTimeout = [i \in Inst |-> Null]
  /\ live = [i \in Inst |-> {}]
  /\ calls = << >>
  /\ loginPending = [i \in Inst |-> 0]
  /\ logoutPending = [i \in Inst |-> 0]
  /\ now = StartTicks * TickMs
  /\ fetchCalls = 0
  /\ burst = [i \in Inst |-> NoBurst]
  /\ loginResult = [i \in Inst |-> "none"]
  /\ logoutResult = [i \in Inst |-> "none"]

Init == Loaded /\ budget = Budget(TRUE, AllMounts, AllOps, AllTicks)
InitGuard == Loaded /\ budget = Budget(TRUE, GuardMounts, 0, 0)
InitSession ==
  Loaded /\ budget = Budget(FALSE, SessionMounts, SessionOps, SessionTicks)
InitThrottle ==
  Loaded /\ budget = Budget(FALSE, ThrottleMounts, ThrottleEvents, ThrottleTicks)

\* ------------------------------------------------------------- helpers

\* `session && session.user` (lines 75, 122, 166)
HasUser(s) == s # Null /\ s.user # Null

\* new Date().toISOString() at instant t
ISOString(t) == "iso:" \o ToString(t)

\* mutant: every account that has an email is privileged
IsAdmin_AnyEmail(email) == email # Undefined

\* session.user.email === 'droweder@gmail.com' (lines 81, 128, 172)
IsAdmin(email) == email = PrivilegedEmail

\* the User object built from a session (lines 77-83, 124-130, 168-174)
UserOf(s) ==
  [ id        |-> s.user.id,
    username  |-> IF s.user.email \in {Undefined, ""} THEN "" ELSE s.user.email,
    password  |-> "",
    isAdmin   |-> IsAdmin(s.user.email),
    createdAt |-> IF s.user.created_at \in {Undefined, ""}
                    THEN ISOString(now) ELSE s.user.created_at ]

\* `${prefix}: ${error.message}` (lines 93, 162) and the catch blocks' text
\* (lines 97, 185)
SessionErrorText(e) == "Erro de sessão: " \o e.message
LoginErrorText(e)   == "Erro no login: " \o e.message

\* mutant: the catch block reads .message without the instanceof test
ConnectionErrorText_NoInstanceof(t) == "Erro de conexão: " \o t.message

ConnectionErrorText(t) ==
  "Erro de conexão: " \o (IF t.isError THEN t.message ELSE "Erro desconhecido")

\* setCurrentUser(user); setAuthToken(session.access_token);
\* setLastTokenRefresh(Date.now())   (lines 85-87, 132-134, 176-178)
SetSession(i, s) ==
  /\ currentUser' = [currentUser EXCEPT ![i] = UserOf(s)]
  /\ authToken' = [authToken EXCEPT ![i] = s.access_token]
  /\ lastTokenRefresh' = [lastTokenRefresh EXCEPT ![i] = now]

\* mutant: the refresh stamp is not reset
ClearSession_KeepsStamp(i) ==
  /\ currentUser' = [currentUser EXCEPT ![i] = Null]
  /\ authToken' = [authToken EXCEPT ![i] = NullStr]
  /\ UNCHANGED lastTokenRefresh

\* setCurrentUser(null); setAuthToken(null); setLastTokenRefresh(0)
\* (lines 137-139, 194-196)
ClearSession(i) ==
  /\ currentUser' = [currentUser EXCEPT ![i] = Null]
  /\ authToken' = [authToken EXCEPT ![i] = NullStr]
  /\ lastTokenRefresh' = [lastTokenRefresh EXCEPT ![i] = 0]

KeepSession == UNCHANGED <<currentUser, authToken, lastTokenRefresh>>

\* ------------------------------------------------- the initialization guard

\* mutant: the early return on a completed probe is missing
AlreadyChecked_Never == FALSE

\* line 46
AlreadyChecked == hasInitialSessionChecked
\* line 52
CheckInProgress == isCheckingSession
\* line 59
SharedHandlePending == sessionCheckPromise # 0

\* mutant: the guard is not taken before the fetch is issued
AcquireGuard_NotTaken(c) == UNCHANGED guardVars

\* lines 65-66: the flag is raised and the handle stored before any await
AcquireGuard(c) ==
  /\ isCheckingSession' = TRUE
  /\ sessionCheckPromise' = c
  /\ UNCHANGED <<hasCheckedSession, hasInitialSessionChecked>>

\* mutant: the finally block forgets to null the shared handle
ReleaseGuard_HandleLeft ==
  /\ isCheckingSession' = FALSE
  /\ hasInitialSessionChecked' = TRUE
  /\ UNCHANGED <<hasCheckedSession, sessionCheckPromise>>

\* mutant: the finally block forgets to lower isCheckingSession
ReleaseGuard_FlagLeft ==
  /\ sessionCheckPromise' = 0
  /\ hasInitialSessionChecked' = TRUE
  /\ UNCHANGED <<hasCheckedSession, isCheckingSession>>

\* lines 99-103: the finally block
ReleaseGuard ==
  /\ isCheckingSession' = FALSE
  /\ sessionCheckPromise' = 0
  /\ hasInitialSessionChecked' = TRUE
  /\ UNCHANGED hasCheckedSession

\* a checkSession invocation: the instance whose effect made it, the branch
\* it took, where it is suspended, the handle it awaits, and for the probe
\* how the fetch ended and whether it returned a session with a user
NewCall(i, branch, pc, on) ==
  [inst |-> i, branch |-> branch, pc |-> pc, on |-> on, end |-> "-",
   hadSession |-> FALSE]

\* checkSession() up to its first suspension (lines 44-73, 106)
CheckSession(i) ==
  LET c == Len(calls) + 1 IN
  IF AlreadyChecked THEN
    /\ isLoading' = [isLoading EXCEPT ![i] = FALSE]
    /\ calls' = Append(calls, NewCall(i, "checked", "done", 0))
    /\ UNCHANGED <<guardVars, authError, fetchCalls>>
  ELSE IF CheckInProgress THEN
    /\ isLoading' = [isLoading EXCEPT ![i] = FALSE]
    /\ calls' = Append(calls, NewCall(i, "checking", "done", 0))
    /\ UNCHANGED <<guardVars, authError, fetchCalls>>
  ELSE IF SharedHandlePending THEN
    /\ calls' = Append(calls, NewCall(i, "shared", "awaitShared",
                                      sessionCheckPromise))
    /\ UNCHANGED <<guardVars, isLoading, authError, fetchCalls>>
  ELSE
    /\ AcquireGuard(c)
    /\ authError' = [authError EXCEPT ![i] = NullStr]
    /\ fetchCalls' = fetchCalls + 1
    /\ calls' = Append(calls, NewCall(i, "probe", "fetching", c))
    /\ UNCHANGED isLoading

\* ------------------------------------------------------------- actions

\* The effect runs (lines 43-143): checkSession() is called and runs to its
\* first suspension, then the change subscription is registered with a
\* fresh, unset timer variable.
Mount(i) ==
  /\ ~subscribed[i]
  /\ i = FirstInst \/ (budget.several /\ calls # << >>)
  /\ budget.mounts > 0
  /\ budget' = [budget EXCEPT !.mounts = @ - 1]
  /\ CheckSession(i)
  /\ subscribed' = [subscribed EXCEPT ![i] = TRUE]
  /\ authStateChangeTimeout' = [authStateChangeTimeout EXCEPT ![i] = Null]
  /\ UNCHANGED <<currentUser, authToken, lastTokenRefresh, loginPending,
                 logoutPending, now, loginResult, logoutResult, burst,
                 live>>

\* mutant: clearTimeout is missing, the timer stays set
ClearTimeout_Missing(h, timers) == timers

\* clearTimeout(h) on the timers that are set (lines 117, 146); a handle
\* that is unset, or whose timer has run, clears nothing
ClearTimeout(h, timers) == timers \ {h}

\* The effect's cleanup (lines 145-148)
Cleanup(i) ==
  /\ subscribed[i]
  /\ live' = [live EXCEPT ![i] = ClearTimeout(authStateChangeTimeout[i], @)]
  /\ authStateChangeTimeout' = [authStateChangeTimeout EXCEPT ![i] = Null]
  /\ subscribed' = [subscribed EXCEPT ![i] = FALSE]
  /\ burst' = [burst EXCEPT ![i].torn = @ \/ authStateChangeTimeout[i] # Null]
  /\ UNCHANGED <<guardVars, stateVars, calls, loginPending, logoutPending,
                 now, fetchCalls, budget, loginResult,
                 logoutResult>>

\* mutant: an error returned with a session is ignored
ProbeBranch_ErrorIgnored(out) ==
  IF out.kind = "throw" THEN "threw"
  ELSE IF HasUser(out.session) THEN "session"
  ELSE IF out.error # Null THEN "error"
  ELSE "nosession"

\* which way lines 75-98 go for a settled fetch
ProbeBranch(out) ==
  IF out.kind = "throw" THEN "threw"
  ELSE IF HasUser(out.session) /\ out.error = Null THEN "session"
  ELSE IF out.error # Null THEN "error"
  ELSE "nosession"

\* withAuthRetry(getSession) settles: the rest of the async block
\* (lines 75-103), which resolves the shared handle
ProbeSettled(c, out) ==
  /\ c \in DOMAIN calls
  /\ calls[c].pc = "fetching"
  /\ LET i == calls[c].inst
         b == ProbeBranch(out) IN
     /\ CASE b = "session" -> SetSession(i, out.session) /\ UNCHANGED authError
          [] b = "error" ->
               /\ authError' = [authError EXCEPT ![i] = SessionErrorText(out.error)]
               /\ KeepSession
          [] b = "threw" ->
               /\ authError' = [authError EXCEPT ![i] = ConnectionErrorText(out.thrown)]
               /\ KeepSession
          [] OTHER -> KeepSession /\ UNCHANGED authError
     /\ ReleaseGuard
     /\ calls' = [k \in DOMAIN calls |->
                    IF k = c
                      THEN [calls[k] EXCEPT !.pc = "resume", !.end = b,
                                            !.hadSession = HasUser(out.session)]
                    ELSE IF calls[k].pc = "awaitShared" /\ calls[k].on = c
                      THEN [calls[k] EXCEPT !.pc = "resume"]
                    ELSE calls[k]]
  /\ UNCHANGED <<isLoading, subscribed, authStateChangeTimeout, loginPending,
                 logoutPending, now, fetchCalls, budget, loginResult, burst,
                 live, logoutResult>>

\* mutant: the continuation returns without touching the loading flag
Resume_KeepsLoading(c) ==
  /\ c \in DOMAIN calls
  /\ calls[c].pc = "resume"
  /\ calls' = [calls EXCEPT ![c].pc = "done"]
  /\ UNCHANGED <<guardVars, stateVars, subscribed, authStateChangeTimeout,
                 live, loginPending, logoutPending, now, fetchCalls, budget,
                 loginResult, logoutResult, burst>>

\* the continuation of `await sessionCheckPromise` (lines 60-62, 106-107)
Resume(c) ==
  /\ c \in DOMAIN calls
  /\ calls[c].pc = "resume"
  /\ isLoading' = [isLoading EXCEPT ![calls[c].inst] = FALSE]
  /\ calls' = [calls EXCEPT ![c].pc = "done"]
  /\ UNCHANGED <<guardVars, currentUser, authToken, authError, lastTokenRefresh,
                 subscribed, authStateChangeTimeout, loginPending,
                 logoutPending, now, fetchCalls, budget, loginResult, burst,
                 live, logoutResult>>

\* mutant: a pending timer is kept and the new event dropped (leading-edge
\* throttle instead of a debounce)
Reschedule_KeepPending(old, s) ==
  IF old # Null THEN old ELSE [session |-> s, due |-> now + ThrottleMs]

\* clearTimeout(authStateChangeTimeout); authStateChangeTimeout =
\* setTimeout(..., 500)   (lines 117-118, 141)
Reschedule(old, s) == [session |-> s, due |-> now + ThrottleMs]

\* history of the chain of events in which each one arrives less than
\* ThrottleMs after the one before
Received(b, s) ==
  IF b.len > 0 /\ now - b.lastAt < ThrottleMs
    THEN [b EXCEPT !.len = @ + 1, !.lastAt = now, !.lastSession = s,
                   !.torn = FALSE, !.beforeLogout = FALSE]
    ELSE [NoBurst EXCEPT !.len = 1, !.lastAt = now, !.lastSession = s]

\* The backend notifies the subscription (lines 114-118); the event kind is
\* only logged
AuthStateChange(i, s) ==
  /\ subscribed[i]
  /\ budget.ops > 0
  /\ budget' = [budget EXCEPT !.ops = @ - 1]
  /\ authStateChangeTimeout' =
       [authStateChangeTimeout EXCEPT ![i] = Reschedule(@, s)]
  /\ live' = [live EXCEPT ![i] =
                ClearTimeout(authStateChangeTimeout[i], @)
                  \cup {Reschedule(authStateChangeTimeout[i], s)}]
  /\ burst' = [burst EXCEPT ![i] = Received(@, s)]
  /\ UNCHANGED <<guardVars, stateVars, subscribed, calls, loginPending,
                 logoutPending, now, fetchCalls, loginResult,
                 logoutResult>>

\* mutant: an event without a session is ignored
ApplyEvent_IgnoresSignOut(i, s) ==
  IF HasUser(s) THEN SetSession(i, s) ELSE KeepSession

\* what the timer callback does to the session fields (lines 122-140)
ApplyEvent(i, s) ==
  IF HasUser(s) THEN SetSession(i, s) ELSE ClearSession(i)

\* The timer callback runs (lines 118-141)
TimeoutFires(i) ==
  \E t \in live[i] :
    /\ now >= t.due
    /\ authError' = [authError EXCEPT ![i] = NullStr]
    /\ ApplyEvent(i, t.session)
    /\ burst' = [burst EXCEPT ![i].applied = @ + 1, ![i].appliedAt = now,
                              ![i].appliedSession = t.session]
    /\ live' = [live EXCEPT ![i] = @ \ {t}]
    /\ authStateChangeTimeout' =
         [authStateChangeTimeout EXCEPT ![i] = IF @ = t THEN Null ELSE @]
  /\ UNCHANGED <<guardVars, isLoading, subscribed, calls, loginPending,
                 logoutPending, now, fetchCalls, budget, loginResult,
                 logoutResult>>

\* Time passes; a timer that is due runs before the clock moves on.  The
\* code reads the clock only to stamp lastTokenRefresh and to run the
\* timer, so the clock is followed only while a throttle window is open.
Tick ==
  /\ budget.ticks > 0
  /\ budget' = [budget EXCEPT !.ticks = @ - 1]
  /\ \E i \in Inst : live[i] # {}
  /\ \A i \in Inst : \A t \in live[i] : t.due > now
  /\ now' = now + TickMs
  /\ UNCHANGED <<guardVars, stateVars, subscribed, authStateChangeTimeout,
                 calls, loginPending, logoutPending, fetchCalls, loginResult,
                 burst,
                 live, logoutResult>>

\* the context value (login, logout) exists only once the provider renders
\* its children (lines 203, 228-240)
Rendered(i) == subscribed[i] /\ ~isLoading[i]

\* login() up to its await (lines 151-158); email and password are only
\* passed on to the backend
Login(i) ==
  /\ Rendered(i)
  /\ budget.ops > 0
  /\ budget' = [budget EXCEPT !.ops = @ - 1]
  /\ authError' = [authError EXCEPT ![i] = NullStr]
  /\ loginPending' = [loginPending EXCEPT ![i] = @ + 1]
  /\ UNCHANGED <<guardVars, currentUser, authToken, isLoading,
                 lastTokenRefresh, subscribed, authStateChangeTimeout, calls,
                 logoutPending, now, fetchCalls, loginResult, burst,
                 live, logoutResult>>

\* which way lines 160-186 go for a settled sign-in
LoginBranch(out) ==
  IF out.kind = "throw" THEN "threw"
  ELSE IF out.error # Null THEN "error"
  ELSE IF HasUser(out.session) THEN "session"
  ELSE "nosession"

\* mutant: a failed sign-in signs the current user out
LoginErrorSession_Clears(i) == ClearSession(i)

\* what login() does to the session fields when sign-in reports an error
\* (lines 160-164)
LoginErrorSession(i) == KeepSession

\* withAuthRetry(signInWithPassword) settles: the rest of login()
\* (lines 160-187)
LoginSettled(i, out) ==
  /\ loginPending[i] > 0
  /\ loginPending' = [loginPending EXCEPT ![i] = @ - 1]
  /\ LET b == LoginBranch(out) IN
     /\ CASE b = "error" ->
               /\ authError' = [authError EXCEPT ![i] = LoginErrorText(out.error)]
               /\ LoginErrorSession(i)
          [] b = "session" -> SetSession(i, out.session) /\ UNCHANGED authError
          [] b = "threw" ->
               /\ authError' = [authError EXCEPT ![i] = ConnectionErrorText(out.thrown)]
               /\ KeepSession
          [] OTHER -> KeepSession /\ UNCHANGED authError
     /\ loginResult' = [loginResult EXCEPT ![i] =
                          IF b = "session" THEN "true" ELSE "false"]
  /\ UNCHANGED <<guardVars, isLoading, subscribed, authStateChangeTimeout,
                 calls, logoutPending, now, fetchCalls, budget, burst,
                 live, logoutResult>>

\* logout() up to its await (lines 190-192)
Logout(i) ==
  /\ Rendered(i)
  /\ budget.ops > 0
  /\ budget' = [budget EXCEPT !.ops = @ - 1]
  /\ logoutPending' = [logoutPending EXCEPT ![i] = @ + 1]
  /\ UNCHANGED <<guardVars, stateVars, subscribed, authStateChangeTimeout,
                 calls, loginPending, now, fetchCalls, loginResult, burst,
                 live, logoutResult>>

\* mutant: the catch block reports the failure the way login() does
LogoutCatch_Surfaces(i, t) ==
  /\ authError' = [authError EXCEPT ![i] = ConnectionErrorText(t)]
  /\ logoutResult' = [logoutResult EXCEPT ![i] = "resolved"]

\* the catch block of logout() (lines 198-200): the exception is logged, and
\* the promise logout() returned resolves
LogoutCatch(i, t) ==
  /\ UNCHANGED authError
  /\ logoutResult' = [logoutResult EXCEPT ![i] = "resolved"]

\* withAuthRetry(signOut) settles: the rest of logout() (lines 193-200)
LogoutSettled(i, out) ==
  /\ logoutPending[i] > 0
  /\ logoutPending' = [logoutPending EXCEPT ![i] = @ - 1]
  /\ IF out.kind = "throw"
       THEN LogoutCatch(i, out.thrown) /\ KeepSession /\ UNCHANGED burst
       ELSE /\ authError' = [authError EXCEPT ![i] = NullStr]
            /\ ClearSession(i)
            /\ logoutResult' = [logoutResult EXCEPT ![i] = "resolved"]
            /\ burst' = [burst EXCEPT ![i].beforeLogout = @ \/ live[i] # {}]
  /\ UNCHANGED <<guardVars, isLoading, subscribed, authStateChangeTimeout,
                 live, calls, loginPending, now, fetchCalls, budget,
                 loginResult>>

\* mutant: the button clears the error and leaves the loading screen up
ManualLogin_KeepsLoading(i) ==
  /\ subscribed[i]
  /\ isLoading[i]
  /\ authError[i] # NullStr
  /\ authError' = [authError EXCEPT ![i] = NullStr]
  /\ UNCHANGED <<guardVars, currentUser, authToken, isLoading,
                 lastTokenRefresh, subscribed, authStateChangeTimeout, live,
                 calls, loginPending, logoutPending, now, fetchCalls, budget,
                 loginResult, logoutResult, burst>>

\* the "Tentar Login Manual" button (lines 203-216)
ManualLogin(i) ==
  /\ subscribed[i]
  /\ isLoading[i]
  /\ authError[i] # NullStr
  /\ authError' = [authError EXCEPT ![i] = NullStr]
  /\ isLoading' = [isLoading EXCEPT ![i] = FALSE]
  /\ UNCHANGED <<guardVars, currentUser, authToken, lastTokenRefresh,
                 subscribed, authStateChangeTimeout, calls, loginPending,
                 logoutPending, now, fetchCalls, budget, loginResult, burst,
                 live, logoutResult>>

Next ==
  \/ \E i \in Inst : Mount(i)
  \/ \E i \in Inst : Cleanup(i)
  \/ \E c \in DOMAIN calls, out \in SessionOutcomes : ProbeSettled(c, out)
  \/ \E c \in DOMAIN calls : Resume(c)
  \/ \E i \in Inst, s \in EventSessions : AuthStateChange(i, s)
  \/ \E i \in Inst : TimeoutFires(i)
  \/ Tick
  \/ \E i \in Inst : Login(i)
  \/ \E i \in Inst, out \in SessionOutcomes : LoginSettled(i, out)
  \/ \E i \in Inst : Logout(i)
  \/ \E i \in Inst, out \in SignOutOutcomes : LogoutSettled(i, out)
  \/ \E i \in Inst : ManualLogin(i)

\* the actions that can run when nothing calls login() or logout()
NextThrottle ==
  \/ \E i \in Inst : Mount(i)
  \/ \E i \in Inst : Cleanup(i)
  \/ \E c \in DOMAIN calls, out \in SessionOutcomes : ProbeSettled(c, out)
  \/ \E c \in DOMAIN calls : Resume(c)
  \/ \E i \in Inst, s \in EventSessions : AuthStateChange(i, s)
  \/ \E i \in Inst : TimeoutFires(i)
  \/ Tick
  \/ \E i \in Inst : ManualLogin(i)

\* the actions that can run when there are no change notifications either
NextGuard ==
  \/ \E i \in Inst : Mount(i)
  \/ \E i \in Inst : Cleanup(i)
  \/ \E c \in DOMAIN calls, out \in SessionOutcomes : ProbeSettled(c, out)
  \/ \E c \in DOMAIN calls : Resume(c)
  \/ \E i \in Inst : ManualLogin(i)

Spec == Init /\ [][Next]_vars
SpecGuard == InitGuard /\ [][NextGuard]_vars

\* the retried fetch settles (it returns or throws) and the event loop runs
\* the continuation of a resolved await
FetchSettles ==
  WF_vars(\E c \in DOMAIN calls, out \in SessionOutcomes : ProbeSettled(c, out))
ContinuationsRun == WF_vars(\E c \in DOMAIN calls : Resume(c))
SpecGuardFair == SpecGuard /\ FetchSettles /\ ContinuationsRun
SpecSession == InitSession /\ [][Next]_vars
SpecThrottle == InitThrottle /\ [][NextThrottle]_vars

\* ---------------------------------------------------------------- claims

ProbesInFlight == { c \in DOMAIN calls : calls[c].pc = "fetching" }

\* C1: however many initialize() (checkSession) calls are started, and
\* however they interleave with the suspended probe, the backend
\* session-fetch has been invoked exactly once as soon as one call was made.
C1_ExactlyOneFetch == calls # << >> => fetchCalls = 1

\* three calls were started while the first probe was still in flight
C1_Witness ==
  /\ Len(calls) >= 3
  /\ isCheckingSession
  /\ ProbesInFlight # {}
  /\ fetchCalls = 1

\* C2: once hasInitialSessionChecked is true, an initialize() call issues no
\* backend call and changes nothing but the loading flag of its instance,
\* which it sets to false.
C2_SkipAfterProbe ==
  [][(hasInitialSessionChecked /\ Len(calls') > Len(calls)) =>
       /\ fetchCalls' = fetchCalls
       /\ UNCHANGED <<guardVars, currentUser, authToken, authError,
                      lastTokenRefresh>>
       /\ \E i \in Inst : isLoading' = [isLoading EXCEPT ![i] = FALSE]]_vars

\* a call was skipped after a probe that ended with a thrown exception
C2_Witness ==
  /\ hasInitialSessionChecked
  /\ \E c \in DOMAIN calls : calls[c].end = "threw"
  /\ \E c \in DOMAIN calls : calls[c].branch = "checked"
                             /\ ~isLoading[calls[c].inst]
  /\ fetchCalls = 1

\* C3 (as claimed): logout() always ends with currentUser and authToken
\* absent and lastRefreshTimestamp 0, whether the sign-out call succeeds,
\* returns an error or throws.
C3_LogoutAlwaysClears ==
  [][\A i \in Inst, out \in SignOutOutcomes :
       LogoutSettled(i, out) =>
         /\ currentUser'[i] = Null
         /\ authToken'[i] = NullStr
         /\ lastTokenRefresh'[i] = 0]_vars

\* C4 (as claimed): a call that found a probe in flight does not set its
\* instance's loading flag to false before that probe has completed.
C4_LateCallerWaits ==
  \A c \in DOMAIN calls :
    (calls[c].branch \in {"checking", "shared"} /\ ProbesInFlight # {})
      => isLoading[calls[c].inst]

\* the state of instance i shows the payload s applied (lines 122-140)
Reflects(i, s) ==
  IF HasUser(s)
    THEN currentUser[i] = UserOf(s) /\ authToken[i] = s.access_token
    ELSE currentUser[i] = Null /\ authToken[i] = NullStr

WindowClosed(i) ==
  /\ burst[i].len > 0
  /\ now >= burst[i].lastAt + ThrottleMs
  /\ authStateChangeTimeout[i] = Null

\* what C5 says of every chain of k >= 1 events, each less than 500ms after
\* the one before: no superseded event is applied (an update is applied
\* only when no later event of the chain is pending), at most one update is
\* applied, it is applied 500ms after the last event and carries that
\* event's payload
AppliedOnlyLast(i) ==
  /\ burst[i].applied <= 1
  /\ burst[i].applied = 1 =>
       /\ authStateChangeTimeout[i] = Null
       /\ burst[i].appliedAt = burst[i].lastAt + ThrottleMs
       /\ burst[i].appliedSession = burst[i].lastSession

C6_LoginErrorFrame ==
  [][/\ \A i \in Inst, out \in SessionOutcomes :
          (LoginSettled(i, out) /\ out.kind = "return" /\ out.error # Null) =>
             /\ loginResult'[i] = "false"
             /\ UNCHANGED <<currentUser, authToken, lastTokenRefresh, isLoading>>
             /\ authError'[i] = "Erro no login: " \o out.error.message
     /\ \A i \in Inst :
          Login(i) =>
             UNCHANGED <<currentUser, authToken, lastTokenRefresh, isLoading>>
    ]_vars

\* a signed-in instance whose login() failed with a backend error
C6_Witness ==
  \E i \in Inst :
    /\ loginResult[i] = "false"
    /\ authError[i] = "Erro no login: e1"
    /\ currentUser[i] # Null
    /\ authToken[i] # NullStr
    /\ lastTokenRefresh[i] # 0

\* C7 (as claimed): when sign-in returns a valid session and no error,
\* login() returns true, authToken is the session's token, currentUser is
\* built from the session, lastTokenRefresh is non-zero and authError is
\* absent.
C7_LoginSuccessState ==
  [][\A i \in Inst, out \in SessionOutcomes :
       (LoginSettled(i, out) /\ out.kind = "return" /\ out.error = Null
          /\ HasUser(out.session)) =>
          /\ loginResult'[i] = "true"
          /\ authToken'[i] = out.session.access_token
          /\ currentUser'[i].id = out.session.user.id
          /\ currentUser'[i].username = out.session.user.email
          /\ lastTokenRefresh'[i] # 0
          /\ authError'[i] = NullStr]_vars

\* C8: whenever currentUser is populated from a session (by the probe, by
\* an applied change event or by login), isAdmin is true exactly when the
\* session's email is "droweder@gmail.com".
C8_AdminIffPrivilegedEmail ==
  [][/\ \A c \in DOMAIN calls, out \in SessionOutcomes :
          (ProbeSettled(c, out) /\ ProbeBranch(out) = "session") =>
             (currentUser'[calls[c].inst].isAdmin
                <=> out.session.user.email = "droweder@gmail.com")
     /\ \A i \in Inst, out \in SessionOutcomes :
          (LoginSettled(i, out) /\ LoginBranch(out) = "session") =>
             (currentUser'[i].isAdmin
                <=> out.session.user.email = "droweder@gmail.com")
     /\ \A i \in Inst :
          (TimeoutFires(i) /\ HasUser(authStateChangeTimeout[i].session)) =>
             (currentUser'[i].isAdmin
                <=> authStateChangeTimeout[i].session.user.email
                      = "droweder@gmail.com")
    ]_vars

\* login() populated an instance for droweder@gmail.com, as privileged
C8_Witness ==
  \E i \in Inst :
    /\ loginResult[i] = "true"
    /\ currentUser[i] # Null
    /\ authToken[i] = "t1"
    /\ currentUser[i].username = "droweder@gmail.com"
    /\ currentUser[i].isAdmin

\* C9: when, after a login() that returned true, a change event carrying a
\* null session is applied, the instance is Anonymous: currentUser and
\* authToken absent (so isAuthenticated false) and lastTokenRefresh 0.
C9_LoginThenSignedOutEvent ==
  [][\A i \in Inst :
       (TimeoutFires(i) /\ authStateChangeTimeout[i].session = Null
          /\ loginResult[i] = "true") =>
          /\ currentUser'[i] = Null
          /\ authToken'[i] = NullStr
          /\ lastTokenRefresh'[i] = 0]_vars

\* login() returned true, nothing called logout(), and the applied event
\* left the instance Anonymous
C9_Witness ==
  \E i \in Inst :
    /\ loginResult[i] = "true"
    /\ logoutPending[i] = 0
    /\ budget.ops = 0
    /\ burst[i].applied = 1
    /\ burst[i].appliedSession = Null
    /\ currentUser[i] = Null
    /\ authToken[i] = NullStr
    /\ lastTokenRefresh[i] = 0

\* C10: at most one probe is in flight in every reachable state, and once
\* hasInitialSessionChecked is true it stays true and isCheckingSession is
\* never true again, whatever is mounted, torn down, logged in or out, or
\* notified.
C10_NeverBackToInitializing ==
  /\ [](/\ Cardinality(ProbesInFlight) <= 1
        /\ hasInitialSessionChecked => (~isCheckingSession /\ ProbesInFlight = {}))
  /\ [][hasInitialSessionChecked => hasInitialSessionChecked']_vars

\* after the probe completed an effect ran again and an operation was used
C10_Witness ==
  /\ hasInitialSessionChecked
  /\ ~isCheckingSession
  /\ \E c \in DOMAIN calls : calls[c].branch = "checked"
  /\ budget.ops = 0

\* C11: when the probe's session fetch throws (the retried call rejects),
\* the probe does not throw: the handle it is awaited through resolves, so
\* the caller resumes; authError is "Erro de conexão: " followed by the
\* Error's message or by "Erro desconhecido"; currentUser and authToken are
\* left as they were, hence absent unless an event or a login populated
\* them meanwhile; the guard is released and hasInitialSessionChecked is set.
C11_ProbeThrowAbsorbed ==
  [][\A c \in DOMAIN calls, t \in Thrown :
       ProbeSettled(c, Rejected(t)) =>
         LET i == calls[c].inst IN
         /\ calls'[c].pc = "resume"
         /\ authError'[i] = (IF t.isError THEN "Erro de conexão: x1"
                                          ELSE "Erro de conexão: Erro desconhecido")
         /\ UNCHANGED <<currentUser, authToken, lastTokenRefresh>>
         /\ ~isCheckingSession' /\ sessionCheckPromise' = 0
         /\ hasInitialSessionChecked']_vars

\* the fetch rejected with something that is not an Error; the caller went
\* on to drop the loading flag and the instance shows the message
C11_Witness ==
  \E c \in DOMAIN calls :
    /\ calls[c].end = "threw"
    /\ calls[c].pc = "done"
    /\ authError[calls[c].inst] = "Erro de conexão: Erro desconhecido"
    /\ currentUser[calls[c].inst] = Null
    /\ ~isLoading[calls[c].inst]
    /\ hasInitialSessionChecked /\ ~isCheckingSession

\* C12: the cleanup of an instance's effect releases the subscription and
\* cancels the pending timer.  In every state an instance has at most one
\* timer set, and none while it has no subscription; the timer callback
\* therefore runs only for a subscribed instance, and what it applies is
\* the event its current effect received last, never one received by an
\* effect that was cleaned up.
C12_TeardownCancels ==
  /\ [](\A i \in Inst :
          /\ Cardinality(live[i]) <= 1
          /\ ~subscribed[i] => live[i] = {}
          /\ live[i] = IF authStateChangeTimeout[i] = Null
                         THEN {} ELSE {authStateChangeTimeout[i]})
  /\ [][\A i \in Inst :
          /\ Cleanup(i) => (~subscribed'[i] /\ live'[i] = {})
          /\ TimeoutFires(i) =>
               /\ subscribed[i]
               /\ ~burst[i].torn
               /\ burst'[i].appliedSession = burst[i].lastSession]_vars

\* an event whose timer had come due was cancelled by the cleanup: the
\* instance has no subscription, no timer, and nothing was applied
C12_Witness ==
  \E i \in Inst :
    /\ ~subscribed[i]
    /\ burst[i].len > 0 /\ burst[i].torn
    /\ now >= burst[i].lastAt + ThrottleMs
    /\ burst[i].applied = 0
    /\ live[i] = {}
    /\ HasUser(burst[i].lastSession) /\ currentUser[i] = Null

\* C13: logout() never surfaces a sign-out failure.  However the sign-out
\* call ends (resolves with or without an error value, or rejects), the
\* promise logout() returned resolves, and authError is either left as it
\* was or cleared, never set to a message; the call itself (before the
\* await) leaves authError alone.
C13_LogoutSuppressesErrors ==
  [][\A i \in Inst :
       /\ Logout(i) => UNCHANGED authError
       /\ \A out \in SignOutOutcomes :
            LogoutSettled(i, out) =>
              /\ logoutResult'[i] = "resolved"
              /\ authError'[i] \in {authError[i], NullStr}
              /\ \A j \in Inst \ {i} : authError'[j] = authError[j]]_vars

\* a logout() whose sign-out failed ended normally on an instance that
\* shows no error
C13_Witness ==
  \E i \in Inst :
    /\ logoutResult[i] = "resolved"
    /\ logoutPending[i] = 0
    /\ authError[i] = NullStr
    /\ loginResult[i] = "none" /\ burst[i].len = 0
    /\ currentUser[i] # Null

\* C14 (as claimed): when the probe's fetch returns a session with a user
\* together with an error, the session is used: currentUser and authToken
\* are populated from it.
C14_SessionUsedDespiteError ==
  [][\A c \in DOMAIN calls, s \in Sessions, e \in BackendErrors :
       ProbeSettled(c, Returned(s, e)) =>
         /\ currentUser'[calls[c].inst] # Null
         /\ currentUser'[calls[c].inst].id = s.user.id
         /\ authToken'[calls[c].inst] = s.access_token]_vars

\* C14 (amended): when the probe's fetch returns a session with a user
\* together with an error, the session is discarded: currentUser, authToken
\* and lastTokenRefresh are left as they were and authError becomes
\* "Erro de sessão: " followed by the error's message.
C14_SessionWithErrorDiscarded ==
  [][\A c \in DOMAIN calls, s \in Sessions, e \in BackendErrors :
       ProbeSettled(c, Returned(s, e)) =>
         /\ UNCHANGED <<currentUser, authToken, lastTokenRefresh>>
         /\ authError'[calls[c].inst] = "Erro de sessão: " \o e.message
         /\ hasInitialSessionChecked' /\ ~isCheckingSession']_vars

\* the fetch returned a session and an error, and the instance stayed
\* signed out with the error shown
C14_Witness ==
  \E c \in DOMAIN calls :
    /\ calls[c].end = "error" /\ calls[c].hadSession
    /\ currentUser[calls[c].inst] = Null
    /\ authToken[calls[c].inst] = NullStr
    /\ authError[calls[c].inst] = "Erro de sessão: e1"

\* C15 (as claimed): every login() call ends either returning true with
\* currentUser and authToken populated, or returning false with authError
\* set to a message.
C15_LoginTrueOrError ==
  [][\A i \in Inst, out \in SessionOutcomes :
       LoginSettled(i, out) =>
         \/ /\ loginResult'[i] = "true"
            /\ currentUser'[i] # Null
            /\ authToken'[i] # NullStr
         \/ /\ loginResult'[i] = "false"
            /\ authError'[i] # NullStr]_vars

\* checkSession invocation k has returned (its setIsLoading(false) has run)
Settled(k) == k \in DOMAIN calls /\ calls[k].pc = "done"

\* C16: provided the fetch settles, every checkSession invocation
\* eventually returns, and it sets isLoading to false in the step in which
\* it returns and in no other: a returned invocation does nothing more, and
\* isLoading falls only when an invocation returns or the manual override
\* is used.  The invocation that started the probe returns only after the
\* guard was released and hasInitialSessionChecked set.
C16_LoadingClearedOnce ==
  /\ \A k \in 1..GuardMounts : (k \in DOMAIN calls) ~> Settled(k)
  /\ [][/\ \A k \in DOMAIN calls' :
            /\ (Settled(k)' /\ ~Settled(k)) =>
                 /\ ~isLoading'[calls'[k].inst]
                 /\ calls'[k].branch = "probe" =>
                      /\ hasInitialSessionChecked
                      /\ ~isCheckingSession
                      /\ sessionCheckPromise = 0
            /\ Settled(k) => calls'[k] = calls[k]
        /\ \A i \in Inst :
             (isLoading[i] /\ ~isLoading'[i]) =>
                \/ ManualLogin(i)
                \/ \E k \in DOMAIN calls' :
                     calls'[k].inst = i /\ Settled(k)' /\ ~Settled(k)]_vars

\* four invocations have returned, one of them the probe, which ended with
\* an error
C16_Witness ==
  /\ Len(calls) = GuardMounts
  /\ \A k \in DOMAIN calls : Settled(k)
  /\ \E k \in DOMAIN calls : calls[k].branch = "probe" /\ calls[k].end = "error"
  /\ \E k \in DOMAIN calls : calls[k].branch = "checking"
  /\ \E k \in DOMAIN calls : calls[k].branch = "checked"
  /\ \A i \in Inst : ~isLoading[i]

\* C17: the manual override can be used on a mounted instance exactly when
\* isLoading is true and authError is set; using it sets isLoading to false
\* and authError to null and leaves currentUser, authToken,
\* lastTokenRefresh and the module-level guard as they were.  So a mounted
\* instance that is loading with an error shown can always leave that state.
C17_ManualOverride ==
  /\ [](\A i \in Inst :
          (ENABLED ManualLogin(i))
            <=> (subscribed[i] /\ isLoading[i] /\ authError[i] # NullStr))
  /\ [][\A i \in Inst :
          ManualLogin(i) =>
            /\ isLoading[i] /\ authError[i] # NullStr
            /\ ~isLoading'[i]
            /\ authError'[i] = NullStr
            /\ UNCHANGED <<currentUser, authToken, lastTokenRefresh, guardVars>>
       ]_vars

\* the probe ended with an error while the loading screen was up, and the
\* override was used before the probing call resumed: the error is gone and
\* the instance has left the loading screen
C17_Witness ==
  \E c \in DOMAIN calls :
    /\ calls[c].end = "error"
    /\ calls[c].pc = "resume"
    /\ subscribed[calls[c].inst]
    /\ ~isLoading[calls[c].inst]
    /\ authError[calls[c].inst] = NullStr
    /\ \A k \in DOMAIN calls : calls[k].inst = calls[c].inst => k = c

\* C18 (as claimed): once logout() has cleared the state of an instance, a
\* change event that was received before and is still pending cannot
\* repopulate it: when its timer runs on the signed-out instance,
\* currentUser and authToken stay absent.
C18_PendingEventAfterLogout ==
  [][\A i \in Inst :
       (TimeoutFires(i) /\ burst[i].beforeLogout
          /\ currentUser[i] = Null /\ authToken[i] = NullStr) =>
          (currentUser'[i] = Null /\ authToken'[i] = NullStr)]_vars

\* C19: in every state, between the handlers' runs, the three session
\* fields of an instance agree: currentUser is null exactly when authToken
\* is null, and exactly when lastTokenRefresh is 0.
C19_SessionFieldsAgree ==
  \A i \in Inst :
    /\ (currentUser[i] = Null) <=> (authToken[i] = NullStr)
    /\ (currentUser[i] = Null) <=> (lastTokenRefresh[i] = 0)

\* an applied event had signed the instance in and a logout() that resolved
\* cleared all three fields
C19_Witness ==
  \E i \in Inst :
    /\ burst[i].applied = 1 /\ HasUser(burst[i].appliedSession)
    /\ logoutResult[i] = "resolved" /\ logoutPending[i] = 0
    /\ loginResult[i] = "none"
    /\ currentUser[i] = Null /\ authToken[i] = NullStr
    /\ lastTokenRefresh[i] = 0

\* C20: in every state in which a checkSession call can start,
\* sessionCheckPromise is non-null exactly when isCheckingSession is true,
\* and no call has ever taken the branch that awaits the shared handle
\* (line 59).
C20_HandleIffFlag ==
  /\ (sessionCheckPromise # 0) <=> isCheckingSession
  /\ \A c \in DOMAIN calls : calls[c].branch # "shared"
  /\ (~AlreadyChecked /\ ~CheckInProgress) => ~SharedHandlePending

\* calls on both instances looked at the guard while the probe was in
\* flight, and returned through the isCheckingSession test
C20_Witness ==
  /\ isCheckingSession /\ sessionCheckPromise # 0
  /\ \E c, d \in DOMAIN calls :
       /\ calls[c].branch = "checking" /\ calls[d].branch = "checking"
       /\ calls[c].inst # calls[d].inst

====
